---- MODULE Spec2Model ----
(***************************************************************************)
(* matplotview: a view axes (ViewAxesImpl) draws the children of another   *)
(* axes through proxies (BoundRendererArtist) bound to a remapping         *)
(* renderer.  The Python call stack is modelled explicitly: one frame per  *)
(* draw() call in progress, one action per statement of the two draw       *)
(* methods, and an exception as a flag that unwinds the stack frame by     *)
(* frame (neither draw method has a try/finally).                          *)
(***************************************************************************)
EXTENDS Integers, Sequences, FiniteSets, TLC

\* ViewAxesImpl.MAX_RENDER_DEPTH
MAX_RENDER_DEPTH == 5

\* Bounds of the model.
GridMax == 1        \* box corners lie on 0..GridMax
MaxFailures == 1    \* failures a drawable may raise in one behaviour
MaxStack == 24      \* the interpreter's recursion limit, in frames

Views == {"v1", "v2"}
PlainAxes == {"a1"}
AxesSet == PlainAxes \cup Views
Drawables == {"d1", "d2"}
Artists == Drawables \cup AxesSet

VARIABLES
    view_axes,            \* ViewAxesImpl.__view_axes, per view
    image_interpolation,  \* ViewAxesImpl.__image_interpolation
    scale_lines,          \* ViewAxesImpl.__scale_lines
    render_depth,         \* ViewAxesImpl._render_depth
    renderer,             \* ViewAxesImpl.__renderer
    children,             \* Axes._children, per axes
    child_axes,           \* Axes.child_axes, per axes
    lim,                  \* the x/y limits of each axes, as a box
    ext,                  \* the window extent of each artist
    clip_box,             \* Artist clip box, per artist
    stack,                \* the call stack, innermost frame last
    exc,                  \* an exception is propagating
    outcome,              \* how the last top-level draw ended
    failures,             \* failures raised so far
    said_scale,           \* history: the line scaling last asked for, per view
    said_interp,          \* history: the interpolation last asked for, per view
    clip_at_entry,        \* history: the clip boxes when the last top-level
                          \* draw began
    phase                 \* history: 1 a draw began, 2 then the figure was
                          \* changed, 3 then a draw began

\* what no statement of a draw assigns
config == <<view_axes, image_interpolation, scale_lines, children,
            child_axes, lim, ext, said_scale, said_interp,
            clip_at_entry, phase>>
vars == <<view_axes, image_interpolation, scale_lines, render_depth,
          renderer, children, child_axes, lim, ext, clip_box, stack, exc,
          outcome, failures, said_scale, said_interp, clip_at_entry,
          phase>>

----------------------------------------------------------------------------
\* Boxes (matplotlib.transforms.Bbox), <<xmin, ymin, xmax, ymax>>; None is <<>>.

NoBox == <<>>
Coords == 0 .. GridMax
Boxes == {b \in Coords \X Coords \X Coords \X Coords :
             b[1] <= b[3] /\ b[2] <= b[4]}

Max(a, b) == IF a >= b THEN a ELSE b
Min(a, b) == IF a <= b THEN a ELSE b

\* Bbox.intersection(bbox1, bbox2): the common box, or None.
BboxIntersection(b1, b2) ==
    LET x0 == Max(b1[1], b2[1])
        y0 == Max(b1[2], b2[2])
        x1 == Min(b1[3], b2[3])
        y1 == Min(b1[4], b2[4])
    IN  IF x0 <= x1 /\ y0 <= y1 THEN <<x0, y0, x1, y1>> ELSE NoBox

\* axes.transData: data to display coordinates, a translation per axes.
transData(a) ==
    CASE a = "a1" -> <<1, 0>>
      [] a = "v1" -> <<0, 1>>
      [] OTHER    -> <<1, 1>>

\* artist.get_window_extent(renderer): the box the artist covers
get_window_extent(a, r) == ext[a]

\* Bbox.transformed(transform)
Transformed(b, t) == <<b[1] + t[1], b[2] + t[2], b[3] + t[1], b[4] + t[2]>>

----------------------------------------------------------------------------
\* Renderers.  A real renderer has an empty chain; _TransformRenderer(base,
\* source.transData, view.transData, view, interpolation, scale_lines) adds
\* one layer to the chain of the renderer it wraps.

NoRenderer == [base |-> "none", chain |-> <<>>]
RealRenderer == [base |-> "real", chain |-> <<>>]

TransformRenderer(base, src, v, interp, scale) ==
    [base |-> base.base,
     chain |-> Append(base.chain,
                      [view |-> v, src |-> src, interp |-> interp,
                       scale |-> scale])]

----------------------------------------------------------------------------
\* Child lists.

Item(a, isProxy, r, box) ==
    [artist |-> a, proxy |-> isProxy, renderer |-> r, clip_box |-> box]

Plain(a) == Item(a, FALSE, NoRenderer, NoBox)

\* Axes.get_children(): the axes' own artists and child axes.
native_children(a) ==
    LET own == children[a] \o child_axes[a]
    IN  [i \in 1 .. Len(own) |-> Plain(own[i])]

\* (mutant) the child axes of the source are left out
SourceChainNoAxes(a) == children[a]

\* itertools.chain(self.__view_axes._children, self.__view_axes.child_axes)
SourceChain(a) == children[a] \o child_axes[a]

\* (mutant) the view itself is not filtered out
NotSelfAlways(a, v) == TRUE

\* "if(a is not self)"
NotSelf(a, v) == a # v

\* the source artists a view wraps
SourceArtists(v) ==
    SelectSeq(SourceChain(view_axes[v]), LAMBDA a : NotSelf(a, v))

\* (mutant) the clip rectangle is taken from the limits of the source
GetChildrenSourceLimits(v) ==
    IF renderer[v] # NoRenderer
    THEN LET mock_renderer ==
                 TransformRenderer(renderer[v], view_axes[v], v,
                                   image_interpolation[v], scale_lines[v])
             axes_box == Transformed(lim[view_axes[v]], transData(view_axes[v]))
             src == SourceArtists(v)
         IN  native_children(v) \o
             [i \in 1 .. Len(src) |-> Item(src[i], TRUE, mock_renderer, axes_box)]
    ELSE native_children(v)

\* ViewAxesImpl.get_children
get_children(v) ==
    IF renderer[v] # NoRenderer
    THEN LET mock_renderer ==
                 TransformRenderer(renderer[v], view_axes[v], v,
                                   image_interpolation[v], scale_lines[v])
             axes_box == Transformed(lim[v], transData(view_axes[v]))
             src == SourceArtists(v)
         IN  native_children(v) \o
             [i \in 1 .. Len(src) |-> Item(src[i], TRUE, mock_renderer, axes_box)]
    ELSE native_children(v)

----------------------------------------------------------------------------
\* Frames of the call stack.

Frame(kind, self, r, pc) ==
    [kind |-> kind, self |-> self, renderer |-> r, pc |-> pc,
     kids |-> <<>>, i |-> 0,
     bound |-> NoRenderer, clip |-> NoBox, orig |-> NoBox, full |-> NoBox,
     called |-> FALSE,
     \* history: the view's fields when the call was entered, and the
     \* renderer the extent was asked under
     depth0 |-> 0, renderer0 |-> NoRenderer, extent_with |-> NoRenderer]

\* a.draw(r) for an artist of the figure
DrawFrame(a, r) ==
    IF a \in Views
    THEN [Frame("axes", a, r, "guard") EXCEPT
             !.depth0 = render_depth[a], !.renderer0 = renderer[a]]
    ELSE IF a \in PlainAxes THEN Frame("axes", a, r, "native")
    ELSE Frame("artist", a, r, "draw")

\* BoundRendererArtist(a, mock, box).draw(r)
ProxyFrame(item, r) ==
    [Frame("proxy", item.artist, r, "save") EXCEPT
        !.bound = item.renderer, !.clip = item.clip_box]

ItemFrame(item, r) ==
    IF item.proxy THEN ProxyFrame(item, r) ELSE DrawFrame(item.artist, r)

Depth == Len(stack)
Top == stack[Depth]
Running == Depth > 0 /\ ~exc
At(kind, pc) == Running /\ Top.kind = kind /\ Top.pc = pc

\* The innermost call returns normally.
Return ==
    /\ stack' = SubSeq(stack, 1, Depth - 1)
    /\ outcome' = IF Depth = 1 THEN "returned" ELSE outcome
    /\ exc' = FALSE

\* The innermost frame moves on to f.
Goto(f) ==
    /\ stack' = [stack EXCEPT ![Depth] = f]
    /\ UNCHANGED <<exc, outcome>>

\* The innermost frame becomes f and calls g; past the recursion limit the
\* call raises RecursionError instead.
Call(f, g) ==
    IF Depth < MaxStack
    THEN /\ stack' = Append([stack EXCEPT ![Depth] = f], g)
         /\ UNCHANGED <<exc, outcome>>
    ELSE /\ stack' = [stack EXCEPT ![Depth] = f]
         /\ exc' = TRUE
         /\ outcome' = "recursion"

\* The innermost call raises.
Raise ==
    /\ exc' = TRUE
    /\ UNCHANGED <<stack, outcome>>

----------------------------------------------------------------------------
\* ViewAxesImpl.draw(renderer), statement by statement.  A plain Axes has
\* only the native part ("native", "loop").

\* (mutant) the guard compares with > instead of >=
AtLimitOffByOne(v) == render_depth[v] > MAX_RENDER_DEPTH

\* (mutant) no guard at all
AtLimitNever(v) == FALSE

\* "if(self._render_depth >= self.MAX_RENDER_DEPTH)"
AtLimit(v) == render_depth[v] >= MAX_RENDER_DEPTH

\* (mutant) at the limit the draw raises instead of returning
DrawGuardRaises ==
    /\ At("axes", "guard")
    /\ IF AtLimit(Top.self)
       THEN Raise
       ELSE Goto([Top EXCEPT !.pc = "inc"])
    /\ UNCHANGED <<config, render_depth, renderer, clip_box, failures>>

\* lines 158-159: the recursion guard
DrawGuard ==
    /\ At("axes", "guard")
    /\ IF AtLimit(Top.self)
       THEN Return
       ELSE Goto([Top EXCEPT !.pc = "inc"])
    /\ UNCHANGED <<config, render_depth, renderer, clip_box, failures>>

\* (mutant) the depth is not counted
DrawIncForgotten ==
    /\ At("axes", "inc")
    /\ Goto([Top EXCEPT !.pc = "setr"])
    /\ UNCHANGED <<config, render_depth, renderer, clip_box, failures>>

\* line 160: self._render_depth += 1
DrawInc ==
    /\ At("axes", "inc")
    /\ render_depth' = [render_depth EXCEPT ![Top.self] = @ + 1]
    /\ Goto([Top EXCEPT !.pc = "setr"])
    /\ UNCHANGED <<config, renderer, clip_box, failures>>

\* line 163: self.__renderer = renderer
DrawSetRenderer ==
    /\ At("axes", "setr")
    /\ renderer' = [renderer EXCEPT ![Top.self] = Top.renderer]
    /\ Goto([Top EXCEPT !.pc = "native"])
    /\ UNCHANGED <<config, render_depth, clip_box, failures>>

\* line 165, super().draw(renderer): Axes.draw asks for the children once...
NativeDraw ==
    /\ At("axes", "native")
    /\ Goto([Top EXCEPT
                !.pc = "loop", !.i = 1,
                !.kids = IF Top.self \in Views THEN get_children(Top.self)
                         ELSE native_children(Top.self)])
    /\ UNCHANGED <<config, render_depth, renderer, clip_box, failures>>

\* ... and draws each of them with the renderer it was given.
NativeDrawChild ==
    /\ At("axes", "loop")
    /\ Top.i <= Len(Top.kids)
    /\ Call([Top EXCEPT !.i = @ + 1], ItemFrame(Top.kids[Top.i], Top.renderer))
    /\ UNCHANGED <<config, render_depth, renderer, clip_box, failures>>

\* super().draw returns
NativeDrawDone ==
    /\ At("axes", "loop")
    /\ Top.i > Len(Top.kids)
    /\ IF Top.self \in Views
       THEN Goto([Top EXCEPT !.pc = "clear"])
       ELSE Return
    /\ UNCHANGED <<config, render_depth, renderer, clip_box, failures>>

\* (mutant) the renderer is not cleared
DrawClearForgotten ==
    /\ At("axes", "clear")
    /\ Goto([Top EXCEPT !.pc = "dec"])
    /\ UNCHANGED <<config, render_depth, renderer, clip_box, failures>>

\* line 168: self.__renderer = None
DrawClearRenderer ==
    /\ At("axes", "clear")
    /\ renderer' = [renderer EXCEPT ![Top.self] = NoRenderer]
    /\ Goto([Top EXCEPT !.pc = "dec"])
    /\ UNCHANGED <<config, render_depth, clip_box, failures>>

\* (mutant) the depth is not given back
DrawDecForgotten ==
    /\ At("axes", "dec")
    /\ Return
    /\ UNCHANGED <<config, render_depth, renderer, clip_box, failures>>

\* line 169: self._render_depth -= 1
DrawDec ==
    /\ At("axes", "dec")
    /\ render_depth' = [render_depth EXCEPT ![Top.self] = @ - 1]
    /\ Return
    /\ UNCHANGED <<config, renderer, clip_box, failures>>

----------------------------------------------------------------------------
\* BoundRendererArtist.draw(renderer), statement by statement.

\* (mutant) the clip box is overridden before the extent is asked for
ProxySaveOverrides ==
    /\ At("proxy", "save")
    /\ clip_box' = [clip_box EXCEPT ![Top.self] = ext[Top.self]]
    /\ Goto([Top EXCEPT !.orig = clip_box[Top.self], !.pc = "extent"])
    /\ UNCHANGED <<config, render_depth, renderer, failures>>

\* line 31: clip_box_orig = self._artist.get_clip_box()
ProxySave ==
    /\ At("proxy", "save")
    /\ Goto([Top EXCEPT !.orig = clip_box[Top.self], !.pc = "extent"])
    /\ UNCHANGED <<config, render_depth, renderer, clip_box, failures>>

\* line 32: full_extents = self._artist.get_window_extent(self._renderer)
ProxyExtent ==
    /\ At("proxy", "extent")
    /\ Goto([Top EXCEPT !.full = get_window_extent(Top.self, Top.bound),
                         !.extent_with = Top.bound, !.pc = "setclip"])
    /\ UNCHANGED <<config, render_depth, renderer, clip_box, failures>>

\* (mutant) an extent that cannot be computed counts as nothing to draw
ProxyExtentSkips ==
    /\ At("proxy", "extent")
    /\ Top.self \in Drawables
    /\ failures < MaxFailures
    /\ failures' = failures + 1
    /\ Goto([Top EXCEPT !.pc = "restore"])
    /\ UNCHANGED <<config, render_depth, renderer, clip_box>>

\* line 32, when the extent of a drawable cannot be computed
ProxyExtentFails ==
    /\ At("proxy", "extent")
    /\ Top.self \in Drawables
    /\ failures < MaxFailures
    /\ failures' = failures + 1
    /\ Raise
    /\ UNCHANGED <<config, render_depth, renderer, clip_box>>

\* (mutant) the artist keeps its own clip box
ProxySetClipForgotten ==
    /\ At("proxy", "setclip")
    /\ Goto([Top EXCEPT !.pc = "test"])
    /\ UNCHANGED <<config, render_depth, renderer, clip_box, failures>>

\* line 33: self._artist.set_clip_box(full_extents)
ProxySetClip ==
    /\ At("proxy", "setclip")
    /\ clip_box' = [clip_box EXCEPT ![Top.self] = Top.full]
    /\ Goto([Top EXCEPT !.pc = "test"])
    /\ UNCHANGED <<config, render_depth, renderer, failures>>

\* (mutant) boxes that only touch do not count
VisibleStrict(full, clip) ==
    /\ Max(full[1], clip[1]) < Min(full[3], clip[3])
    /\ Max(full[2], clip[2]) < Min(full[4], clip[4])

\* "Bbox.intersection(full_extents, self._clip_box) is not None"
Visible(full, clip) == BboxIntersection(full, clip) # NoBox

\* lines 37-38: draw the artist with the bound renderer, or skip it
ProxyTest ==
    /\ At("proxy", "test")
    /\ IF Visible(Top.full, Top.clip)
       THEN Call([Top EXCEPT !.pc = "restore", !.called = TRUE],
                 DrawFrame(Top.self, Top.bound))
       ELSE Goto([Top EXCEPT !.pc = "restore"])
    /\ UNCHANGED <<config, render_depth, renderer, clip_box, failures>>

\* (mutant) the clip box is not put back
ProxyRestoreForgotten ==
    /\ At("proxy", "restore")
    /\ Return
    /\ UNCHANGED <<config, render_depth, renderer, clip_box, failures>>

\* line 41: self._artist.set_clip_box(clip_box_orig)
ProxyRestore ==
    /\ At("proxy", "restore")
    /\ clip_box' = [clip_box EXCEPT ![Top.self] = Top.orig]
    /\ Return
    /\ UNCHANGED <<config, render_depth, renderer, failures>>

----------------------------------------------------------------------------
\* Artist.draw(renderer) of a drawable: it emits its primitives, or fails.

ArtistDraw ==
    /\ At("artist", "draw")
    /\ Return
    /\ UNCHANGED <<config, render_depth, renderer, clip_box, failures>>

ArtistDrawFails ==
    /\ At("artist", "draw")
    /\ failures < MaxFailures
    /\ failures' = failures + 1
    /\ Raise
    /\ UNCHANGED <<config, render_depth, renderer, clip_box>>

\* An exception leaves the innermost frame: no draw method catches it and
\* none has a finally clause, so the frame is dropped as it is.
Unwind ==
    /\ exc
    /\ Depth > 0
    /\ stack' = SubSeq(stack, 1, Depth - 1)
    /\ exc' = (Depth > 1)
    /\ outcome' = IF Depth = 1 /\ outcome = "running" THEN "raised" ELSE outcome
    /\ UNCHANGED <<config, render_depth, renderer, clip_box, failures>>

\* The application (or the figure) draws an axes with the real renderer.
TopLevelDraw(a) ==
    /\ Depth = 0
    /\ stack' = <<DrawFrame(a, RealRenderer)>>
    /\ outcome' = "running"
    /\ clip_at_entry' = clip_box
    /\ phase' = CASE phase = 0 -> 1 [] phase = 2 -> 3 [] OTHER -> phase
    /\ UNCHANGED <<view_axes, image_interpolation, scale_lines, children,
                   child_axes, lim, ext, said_scale, said_interp,
                   render_depth, renderer, clip_box, failures, exc>>

\* the statements of a draw in which nothing fails
NormalStep ==
    \/ DrawGuard \/ DrawInc \/ DrawSetRenderer
    \/ NativeDraw \/ NativeDrawChild \/ NativeDrawDone
    \/ DrawClearRenderer \/ DrawDec
    \/ ProxySave \/ ProxyExtent \/ ProxySetClip
    \/ ProxyTest \/ ProxyRestore
    \/ ArtistDraw

Step ==
    \/ NormalStep
    \/ ProxyExtentFails
    \/ ArtistDrawFails
    \/ Unwind

Next ==
    \/ Step
    \/ \E a \in AxesSet : TopLevelDraw(a)

----------------------------------------------------------------------------
\* Figures.  Every figure has the axes a1, v1, v2 and the drawables d1, d2.

FullBox == <<0, 0, GridMax, GridMax>>
Patch == <<0, 0, 0, 0>>

Figure(src, kids, insets, e, l) ==
    [view_axes |-> src, children |-> kids, child_axes |-> insets,
     ext |-> e, lim |-> l]

None3 == [a \in AxesSet |-> <<>>]
FullExt == [a \in Artists |-> FullBox]
FullLim == [a \in AxesSet |-> FullBox]

\* view(ax2, ax1): two axes side by side, the view has a drawable of its own
Standalone(e, l) ==
    Figure([v \in Views |-> "a1"],
           [None3 EXCEPT !["a1"] = <<"d1">>, !["v1"] = <<"d2">>],
           None3,
           [FullExt EXCEPT !["d1"] = e],
           [FullLim EXCEPT !["v1"] = l])

\* inset_zoom_axes(ax, ...): v1 is an inset of a1 and views it; v2 views itself
Inset ==
    Figure([v \in Views |-> IF v = "v1" THEN "a1" ELSE "v2"],
           [None3 EXCEPT !["a1"] = <<"d1">>, !["v2"] = <<"d2">>],
           [None3 EXCEPT !["a1"] = <<"v1">>],
           FullExt, FullLim)

\* two insets of a1 that both view a1: each is a source child of the other
Twin ==
    Figure([v \in Views |-> "a1"],
           [None3 EXCEPT !["a1"] = <<"d1">>],
           [None3 EXCEPT !["a1"] = <<"v1", "v2">>],
           FullExt, FullLim)

\* v1 views v2 and v2 views v1
Mutual ==
    Figure([v \in Views |-> IF v = "v1" THEN "v2" ELSE "v1"],
           [None3 EXCEPT !["v1"] = <<"d1">>, !["v2"] = <<"d2">>],
           None3,
           FullExt, FullLim)

\* v2 is an inset of v1, v1 an inset of a1; both view a1
Nested ==
    Figure([v \in Views |-> "a1"],
           [None3 EXCEPT !["a1"] = <<"d1">>],
           [None3 EXCEPT !["a1"] = <<"v1">>, !["v1"] = <<"v2">>],
           FullExt, FullLim)

\* the figures with views drawn from within views, and the two from the tests
NestingFigures == {Standalone(FullBox, FullBox), Inset, Twin, Mutual, Nested}

Figures == {Standalone(e, l) : e \in Boxes, l \in Boxes} \cup NestingFigures

\* _init_vars, and the artists as the figure was built
InitWith(figs) ==
    /\ \E f \in figs :
          /\ view_axes = f.view_axes
          /\ children = f.children
          /\ child_axes = f.child_axes
          /\ ext = f.ext
          /\ lim = f.lim
    /\ image_interpolation = [v \in Views |-> "nearest"]
    /\ scale_lines = [v \in Views |-> TRUE]
    /\ render_depth = [v \in Views |-> 0]
    /\ renderer = [v \in Views |-> NoRenderer]
    /\ clip_box = [a \in Artists |-> IF a \in Drawables THEN Patch ELSE NoBox]
    /\ stack = <<>>
    /\ exc = FALSE
    /\ outcome = "none"
    /\ failures = 0
    /\ said_scale = [v \in Views |-> TRUE]
    /\ said_interp = [v \in Views |-> "nearest"]
    /\ clip_at_entry = clip_box
    /\ phase = 0

Init == InitWith(Figures)

Spec == Init /\ [][Next]_vars

\* The interpreter runs the call in progress to its end.
FairSpec == InitWith(NestingFigures) /\ [][Next]_vars /\ WF_vars(Step)

----------------------------------------------------------------------------
\* Calls made on the axes between two draws.

InterpModes == {"nearest", "bilinear"}

\* the windows an axes is panned or zoomed to
LimChoices == {FullBox, Patch}

\* a call from the program, made while nothing is being drawn
Between ==
    /\ Depth = 0
    /\ phase' = IF phase = 1 THEN 2 ELSE phase
    /\ UNCHANGED <<stack, exc, outcome, failures, clip_box, clip_at_entry,
                   ext, child_axes>>

\* get_linescaling
get_linescaling(v) == scale_lines[v]

\* (mutant) the value is stored negated
SetLineScalingNegated(v, value) ==
    /\ Between
    /\ scale_lines' = [scale_lines EXCEPT ![v] = ~value]
    /\ said_scale' = [said_scale EXCEPT ![v] = value]
    /\ UNCHANGED <<view_axes, image_interpolation, render_depth, renderer,
                   children, lim, said_interp>>

\* set_linescaling(value)
SetLineScaling(v, value) ==
    /\ Between
    /\ scale_lines' = [scale_lines EXCEPT ![v] = value]
    /\ said_scale' = [said_scale EXCEPT ![v] = value]
    /\ UNCHANGED <<view_axes, image_interpolation, render_depth, renderer,
                   children, lim, said_interp>>

\* (mutant) binding takes over the limits of the source
FromAxesCopiesLimits(v, axes_to_view, interp) ==
    /\ Between
    /\ view_axes' = [view_axes EXCEPT ![v] = axes_to_view]
    /\ image_interpolation' = [image_interpolation EXCEPT ![v] = interp]
    /\ render_depth' = [render_depth EXCEPT ![v] = 0]
    /\ scale_lines' = [scale_lines EXCEPT ![v] = TRUE]
    /\ renderer' = [renderer EXCEPT ![v] = NoRenderer]
    /\ lim' = [lim EXCEPT ![v] = lim[axes_to_view]]
    /\ said_scale' = [said_scale EXCEPT ![v] = TRUE]
    /\ said_interp' = [said_interp EXCEPT ![v] = interp]
    /\ UNCHANGED children

\* from_axes(axes, axes_to_view, image_interpolation): _init_vars on an
\* axes that exists, with its limits and children as they are
FromAxes(v, axes_to_view, interp) ==
    /\ Between
    /\ view_axes' = [view_axes EXCEPT ![v] = axes_to_view]
    /\ image_interpolation' = [image_interpolation EXCEPT ![v] = interp]
    /\ render_depth' = [render_depth EXCEPT ![v] = 0]
    /\ scale_lines' = [scale_lines EXCEPT ![v] = TRUE]
    /\ renderer' = [renderer EXCEPT ![v] = NoRenderer]
    /\ said_scale' = [said_scale EXCEPT ![v] = TRUE]
    /\ said_interp' = [said_interp EXCEPT ![v] = interp]
    /\ UNCHANGED <<children, lim>>

\* set_xlim / set_ylim on one axes
SetLim(a, box) ==
    /\ Between
    /\ lim' = [lim EXCEPT ![a] = box]
    /\ UNCHANGED <<view_axes, image_interpolation, scale_lines, render_depth,
                   renderer, children, said_scale, said_interp>>

\* plotting into an axes: a drawable no axes has yet is added to it
AddChild(a, d) ==
    /\ Between
    /\ \A b \in AxesSet : \A i \in DOMAIN children[b] : children[b][i] # d
    /\ children' = [children EXCEPT ![a] = Append(@, d)]
    /\ UNCHANGED <<view_axes, image_interpolation, scale_lines, render_depth,
                   renderer, lim, said_scale, said_interp>>

\* view(ax2, ax1) before anything is plotted into the view
Bare ==
    Figure([v \in Views |-> "a1"],
           [None3 EXCEPT !["a1"] = <<"d1">>],
           None3,
           FullExt, FullLim)

EditFigures == {Bare, Nested}

\* the view and the axes the program calls, and the drawable it adds
EditViews == {"v1"}
EditSources == {"a1", "v2"}
EditAxes == {"a1", "v1"}
EditDrawables == {"d2"}

EditNext ==
    \/ NormalStep
    \/ \E a \in AxesSet : TopLevelDraw(a)
    \/ \E v \in EditViews, value \in BOOLEAN : SetLineScaling(v, value)
    \/ \E v \in EditViews, a \in EditSources, interp \in InterpModes :
          FromAxes(v, a, interp)
    \/ \E a \in EditAxes, box \in LimChoices : SetLim(a, box)
    \/ \E a \in EditAxes, d \in EditDrawables : AddChild(a, d)

\* Draws in which nothing fails, and calls on the axes between them.
EditSpec == InitWith(EditFigures) /\ [][EditNext]_vars

----------------------------------------------------------------------------
\* Properties.

Range(s) == {s[i] : i \in DOMAIN s}

\* the draw() calls of view v on the stack that went past the guard
ViewDraws(v) ==
    {k \in 1 .. Depth :
        stack[k].kind = "axes" /\ stack[k].self = v /\ stack[k].pc # "guard"}

AllViewDraws == UNION {ViewDraws(v) : v \in Views}

\* w is drawn from within a draw of v: as a child of v or of v's source
DrawsInto(v, w) ==
    \/ w \in Range(child_axes[v])
    \/ w # v /\ w \in Range(child_axes[view_axes[v]])

\* two views each drawn from within the other
Cyclic == \E v, w \in Views : v # w /\ DrawsInto(v, w) /\ DrawsInto(w, v)

\* C1: in every reachable state every view's render depth lies in
\* 0 .. MAX_RENDER_DEPTH, re-entrant draws and failed draws included.
RenderDepthInRange ==
    \A v \in Views : 0 <= render_depth[v] /\ render_depth[v] <= MAX_RENDER_DEPTH

\* C1 witness: a view is at the limit, with several of its own draws nested.
RenderDepthAtLimit ==
    \E v \in Views :
        render_depth[v] = MAX_RENDER_DEPTH /\ Cardinality(ViewDraws(v)) > 1

\* C2: a draw in progress always comes back to its top-level caller, and
\* never by running into the interpreter's recursion limit.
DrawTerminates ==
    /\ [](outcome # "recursion")
    /\ (Depth > 0) ~> (Depth = 0)

\* C2 witness: a top-level draw of a cyclic figure has returned.
CyclicDrawReturned == Cyclic /\ Depth = 0 /\ outcome = "returned"

\* C3 as stated: at most MAX_RENDER_DEPTH view draws are nested, counted
\* across all the views.
TotalViewDrawsBounded == Cardinality(AllViewDraws) <= MAX_RENDER_DEPTH

\* C3 amended: at most MAX_RENDER_DEPTH draws of any one view are past the
\* guard at the same time.
ViewDrawsBounded ==
    \A v \in Views : Cardinality(ViewDraws(v)) <= MAX_RENDER_DEPTH

\* C3 witness: one view has MAX_RENDER_DEPTH draws nested and the views
\* together have more.
ViewDrawsAtBound ==
    /\ \E v \in Views : Cardinality(ViewDraws(v)) = MAX_RENDER_DEPTH
    /\ Cardinality(AllViewDraws) > MAX_RENDER_DEPTH

\* C4: when the draw of the wrapped artist fails, the proxy's draw leaves
\* the artist with the clip box it had before.
ClipRestoredOnFailure ==
    [][(exc /\ Depth > 0 /\ Top.kind = "proxy" /\ Top.pc = "restore")
          => clip_box'[Top.self] = Top.orig]_vars

\* the two closed rectangles have a point in common
Meets(b, c) ==
    \E x \in b[1] .. b[3], y \in b[2] .. b[4] :
        c[1] <= x /\ x <= c[3] /\ c[2] <= y /\ y <= c[4]

\* C5: a proxy draws its artist exactly when the artist's extent and the
\* clip region have a point in common, and then with the bound renderer.
DrawnIffMeets ==
    \A k \in 1 .. Depth :
        stack[k].kind = "proxy" =>
            /\ stack[k].pc = "restore" =>
                  (stack[k].called <=> Meets(stack[k].full, stack[k].clip))
            /\ k < Depth =>
                  /\ stack[k].pc = "restore" /\ stack[k].called
                  /\ stack[k + 1].self = stack[k].self
                  /\ stack[k + 1].kind # "proxy"
                  /\ stack[k + 1].renderer = stack[k].bound

\* C5 witness: an artist whose extent only touches the clip region has been
\* drawn; its proxy is about to restore the clip box.
TouchingDrawn ==
    /\ At("proxy", "restore")
    /\ Top.called
    /\ ~VisibleStrict(Top.full, Top.clip)

\* C6: a view with no draw in progress has no renderer and depth 0.
NoStatePersists ==
    \A v \in Views :
        (\A k \in 1 .. Depth : ~(stack[k].kind = "axes" /\ stack[k].self = v))
            => renderer[v] = NoRenderer /\ render_depth[v] = 0

\* C7: the children a view enumerates hold no proxy of the view itself.
NoSelfProxy ==
    \A v \in Views :
        \A i \in DOMAIN get_children(v) :
            get_children(v)[i].proxy => get_children(v)[i].artist # v

\* C7 witness: a view that is a child axes of its own source enumerates
\* proxies.
InsetEnumerates ==
    \E v \in Views :
        /\ v \in Range(child_axes[view_axes[v]])
        /\ renderer[v] # NoRenderer
        /\ \E i \in DOMAIN get_children(v) : get_children(v)[i].proxy

\* the children of v's source, the view itself left out
SourceChildren(v) ==
    (Range(children[view_axes[v]]) \cup Range(child_axes[view_axes[v]])) \ {v}

\* C8: without a renderer a view enumerates its native children; with one,
\* the native children followed by one proxy per child of the source other
\* than the view, none left out and none twice.
ChildrenExact ==
    \A v \in Views :
        LET g == get_children(v)
            n == native_children(v)
            p == [i \in 1 .. Len(g) - Len(n) |-> g[Len(n) + i]]
        IN  IF renderer[v] = NoRenderer
            THEN g = n
            ELSE /\ Len(g) >= Len(n)
                 /\ SubSeq(g, 1, Len(n)) = n
                 /\ \A i \in DOMAIN p : p[i].proxy
                 /\ {p[i].artist : i \in DOMAIN p} = SourceChildren(v)
                 /\ Len(p) = Cardinality(SourceChildren(v))

\* C8 witness: a drawing view whose source has a drawable, another child
\* axes and the view itself.
EnumeratesMixedSource ==
    \E v \in Views :
        /\ renderer[v] # NoRenderer
        /\ v \in Range(child_axes[view_axes[v]])
        /\ SourceChildren(v) \cap Drawables # {}
        /\ SourceChildren(v) \cap AxesSet # {}

\* C9: a draw entered at the limit returns at once, normally, and changes
\* neither the depth nor the renderer (nor anything else).
LimitIsNoOp ==
    [][(At("axes", "guard") /\ Top.self \in Views
          /\ render_depth[Top.self] >= MAX_RENDER_DEPTH)
          => /\ stack' = SubSeq(stack, 1, Depth - 1)
             /\ ~exc'
             /\ outcome' \in {"running", "returned"}
             /\ render_depth' = render_depth
             /\ renderer' = renderer
             /\ clip_box' = clip_box]_vars

\* C9 witness: a draw is entered at the limit.
DrawEnteredAtLimit ==
    At("axes", "guard") /\ Top.self \in Views
        /\ render_depth[Top.self] >= MAX_RENDER_DEPTH

\* C10: a failure of an extent or of a draw raises, and a raised failure
\* leaves every enclosing draw, one by one, until it reaches the top-level
\* caller; nothing is drawn on the way.
FailurePropagates ==
    [][/\ failures' # failures => exc' /\ stack' = stack
       /\ exc => /\ stack' = SubSeq(stack, 1, Depth - 1)
                 /\ Depth > 1 => exc'
                 /\ Depth = 1 => outcome' = "raised"]_vars

\* C10 witness: a failure raised under a proxy inside a view's draw has
\* reached the top-level caller.
FailureReachedCaller ==
    /\ Depth = 0
    /\ outcome = "raised"
    /\ failures > 0
    /\ \E v \in Views : render_depth[v] > 0

\* C13: after a top-level draw that returned normally every artist has the
\* clip box it had when that draw began.
ClipBoxesRestored ==
    (Depth = 0 /\ outcome = "returned") => clip_box = clip_at_entry

\* C13 witness: a top-level draw of a cyclic figure, where the same axes is
\* proxied at several nesting levels, has returned.
CyclicDrawRestored ==
    /\ Cyclic
    /\ Depth = 0
    /\ outcome = "returned"
    /\ clip_box = clip_at_entry

\* a draw() call of a view returns normally in this step
ViewDrawReturns ==
    /\ Running
    /\ Top.kind = "axes"
    /\ Top.self \in Views
    /\ Len(stack') < Depth

\* C14 as stated (and only for behaviours without any failure): a view's
\* draw that returns normally leaves the depth and the renderer as they
\* were when it was entered.
ExitRestoresEntry ==
    [][(failures = 0 /\ ViewDrawReturns)
          => /\ render_depth'[Top.self] = Top.depth0
             /\ renderer'[Top.self] = Top.renderer0]_vars

\* C14 amended: a view's draw that returns normally leaves the depth as it
\* was when it was entered; the renderer is as it was if the guard turned
\* the call back, and None otherwise.
ExitRestoresDepthClearsRenderer ==
    [][ViewDrawReturns
          => /\ render_depth'[Top.self] = Top.depth0
             /\ renderer'[Top.self] =
                    IF Top.pc = "guard" THEN Top.renderer0 ELSE NoRenderer]_vars

\* C14 witness: a re-entrant draw of a view, entered while the view had a
\* renderer, is about to return.
ReentrantDrawExits ==
    /\ At("axes", "dec")
    /\ failures = 0
    /\ Top.renderer0 # NoRenderer
    /\ Cardinality(ViewDraws(Top.self)) > 1

\* C15: while a proxy has its artist drawn, the artist's clip box is the
\* extent the proxy computed under its bound renderer, and the artist is
\* drawn with the bound renderer, which is not the renderer the proxy's draw
\* was given.
DrawnUnderFullExtent ==
    \A k \in 1 .. Depth - 1 :
        stack[k].kind = "proxy" =>
            /\ stack[k + 1].self = stack[k].self
            /\ clip_box[stack[k].self] = stack[k].full
            /\ stack[k].extent_with = stack[k].bound
            /\ stack[k + 1].renderer = stack[k].bound
            /\ stack[k + 1].renderer # stack[k].renderer

\* C15 witness: a drawable whose own clip box differs from its extent is
\* being drawn by a proxy.
ProxiedDrawableDrawing ==
    /\ At("artist", "draw")
    /\ Depth > 1
    /\ stack[Depth - 1].kind = "proxy"
    /\ stack[Depth - 1].orig # stack[Depth - 1].full

\* C17: a view has a renderer only while its depth is at least 1.
RendererImpliesDepth ==
    \A v \in Views : renderer[v] # NoRenderer => render_depth[v] >= 1

\* C17 witness: a failure has left a draw and the view still has a renderer.
RendererLeftAfterFailure ==
    /\ Depth = 0
    /\ outcome = "raised"
    /\ \E v \in Views : renderer[v] # NoRenderer

\* all the draw() calls of view v on the stack
ViewCalls(v) ==
    {k \in 1 .. Depth : stack[k].kind = "axes" /\ stack[k].self = v}

AllViewCalls == UNION {ViewCalls(v) : v \in Views}

\* C18 as stated: at most MAX_RENDER_DEPTH draw() calls of a view are on the
\* stack, and at most N * MAX_RENDER_DEPTH of all N views.
ViewCallsBounded ==
    /\ \A v \in Views : Cardinality(ViewCalls(v)) <= MAX_RENDER_DEPTH
    /\ Cardinality(AllViewCalls) <= Cardinality(Views) * MAX_RENDER_DEPTH

\* C18 amended: at most MAX_RENDER_DEPTH draw() calls of a view, and
\* N * MAX_RENDER_DEPTH of all N views, are past the guard; the one call the
\* guard is turning back comes on top of that.
ViewCallsBoundedPlusOne ==
    /\ \A v \in Views :
          /\ Cardinality(ViewDraws(v)) <= MAX_RENDER_DEPTH
          /\ Cardinality(ViewCalls(v)) <= MAX_RENDER_DEPTH + 1
    /\ Cardinality(AllViewDraws) <= Cardinality(Views) * MAX_RENDER_DEPTH
    /\ Cardinality(AllViewCalls) <= Cardinality(Views) * MAX_RENDER_DEPTH + 1
    /\ \A k \in AllViewCalls : stack[k].pc = "guard" => k = Depth

\* C18 witness: every view has MAX_RENDER_DEPTH draws in progress and one
\* more call is at the guard.
AllViewsAtBound ==
    /\ \A v \in Views : Cardinality(ViewDraws(v)) = MAX_RENDER_DEPTH
    /\ Cardinality(AllViewCalls) = Cardinality(Views) * MAX_RENDER_DEPTH + 1

\* C19: when the extent cannot be computed the artist's clip box is still
\* the one the proxy found, and it stays so as the failure leaves the proxy.
ExtentFailureLeavesClip ==
    [][(Depth > 0 /\ Top.kind = "proxy" /\ Top.pc = "extent" /\ (exc \/ exc'))
          => /\ clip_box' = clip_box
             /\ clip_box[Top.self] = Top.orig]_vars

\* C19 witness: the extent of a drawable could not be computed; its own clip
\* box differs from its extent.
ExtentFailed ==
    /\ exc
    /\ Depth > 0
    /\ Top.kind = "proxy"
    /\ Top.pc = "extent"
    /\ Top.orig # ext[Top.self]

\* C11: drawing and binding a view leave the limits and the children of
\* every axes as they are, so binding copies no limits into the view; setting
\* the limits of one axes changes the limits of no other axes.
ViewsAreMirrors ==
    [][/\ (Depth > 0 \/ Len(stack') > 0
             \/ \E v \in Views, a \in AxesSet, interp \in InterpModes :
                   FromAxes(v, a, interp))
          => /\ lim' = lim
             /\ children' = children
             /\ child_axes' = child_axes
       /\ \A a \in AxesSet, box \in LimChoices :
             SetLim(a, box)
                => /\ lim'[a] = box
                   /\ \A b \in AxesSet \ {a} : lim'[b] = lim[b]
                   /\ children' = children
                   /\ child_axes' = child_axes]_vars

\* C11 witness: a view was bound again and drawn, and its limits differ
\* from the limits of its source.
BoundViewKeepsLimits ==
    \E v \in Views :
        /\ said_interp[v] = "bilinear"
        /\ lim[v] # lim[view_axes[v]]
        /\ Depth = 0
        /\ outcome = "returned"
        /\ phase = 3

\* the proxies among the children a draw of a view enumerated
Proxies(f) == {i \in DOMAIN f.kids : f.kids[i].proxy}

\* the layer a view's get_children put around the renderer
MockLayer(r) == r.chain[Len(r.chain)]

\* C12: get_linescaling() gives the value of the last set_linescaling since
\* the last bind, or True; the renderer a drawing view wraps its source's
\* artists with carries that value and the interpolation of the last bind.
LineScalingAsSaid ==
    \A v \in Views :
        /\ get_linescaling(v) = said_scale[v]
        /\ \A k \in ViewDraws(v) :
              stack[k].pc = "loop" =>
                  \A i \in Proxies(stack[k]) :
                      LET layer == MockLayer(stack[k].kids[i].renderer)
                      IN  /\ layer.scale = said_scale[v]
                          /\ layer.interp = said_interp[v]

\* C12 witness: a view bound with another interpolation and then set not to
\* scale lines is drawing proxies.
DrawsAsConfigured ==
    \E v \in Views : \E k \in ViewDraws(v) :
        /\ stack[k].pc = "loop"
        /\ Proxies(stack[k]) # {}
        /\ said_scale[v] = FALSE
        /\ said_interp[v] = "bilinear"

\* C16: each get_children of a drawing view wraps the children its source
\* has at that time, all with one renderer built around the view's renderer
\* and one clip rectangle, the view's limits at that time mapped through the
\* source's transData.
ProxiesBuiltFromCurrent ==
    [][(At("axes", "native") /\ Top.self \in Views
           /\ renderer[Top.self] # NoRenderer)
          => LET v == Top.self
                 f == stack'[Depth]
                 r == TransformRenderer(renderer[v], view_axes[v], v,
                                        image_interpolation[v], scale_lines[v])
                 box == Transformed(lim[v], transData(view_axes[v]))
             IN  /\ {f.kids[i].artist : i \in Proxies(f)} = SourceChildren(v)
                 /\ \A i \in Proxies(f) :
                       /\ f.kids[i].renderer = r
                       /\ f.kids[i].clip_box = box
                 /\ r # renderer[v]]_vars

\* C16 witness: in a draw that follows a draw and a change, a view wraps a
\* drawable added to its source, with a clip rectangle from changed limits.
ChangeReflected ==
    /\ phase = 3
    /\ \E v \in Views : \E k \in ViewDraws(v) :
          /\ stack[k].pc = "loop"
          /\ \E i \in Proxies(stack[k]) :
                /\ stack[k].kids[i].artist = "d2"
                /\ stack[k].kids[i].clip_box
                      # Transformed(FullBox, transData(view_axes[v]))

====
